---------------------------- MODULE Spec2Model ----------------------------
(***************************************************************************)
(* itoa: decimal formatting of the primitive integers into a reusable      *)
(* 40-byte Buffer (src/src/lib.rs).                                        *)
(*                                                                         *)
(* Machine integers are little-endian sequences of bytes (base-256 limbs)  *)
(* of the width of their Rust type, so that u32, u64 and u128 arithmetic   *)
(* keeps its width: a value of type u64 is a sequence of 8 elements of     *)
(* 0..255.  Small quantities of type isize/usize that the code only uses   *)
(* as offsets and lengths (curr, rem, d1, d2, len) are plain integers.     *)
(***************************************************************************)
EXTENDS Integers, Sequences, FiniteSets

(***************************************************************************)
(* Fixed-width unsigned arithmetic on byte sequences.                      *)
(***************************************************************************)
Byte == 0..255

\* k zero bytes: the value 0 of a k-byte type.
Zero(k) == [i \in 1..k |-> 0]

\* The k-byte value of a small natural x (x < 2^31).
RECURSIVE FromNat(_, _)
FromNat(x, k) == IF k = 0 THEN <<>> ELSE <<x % 256>> \o FromNat(x \div 256, k - 1)

IsZero(a) == \A i \in 1..Len(a) : a[i] = 0

\* The integer a byte sequence stands for (the value must fit TLC's
\* integers; the writer only converts values below 10000).
RECURSIVE ToNat(_)
ToNat(a) == IF Len(a) = 0 THEN 0 ELSE a[1] + 256 * ToNat(Tail(a))

\* a zero-extended (or truncated) to k bytes: an `as` cast from unsigned.
Resize(a, k) == [i \in 1..k |-> IF i <= Len(a) THEN a[i] ELSE 0]

\* a < b, a and b values of any widths.
RECURSIVE LtFrom(_, _, _)
LtFrom(a, b, i) ==
  IF i = 0 THEN FALSE
  ELSE LET x == IF i <= Len(a) THEN a[i] ELSE 0
           y == IF i <= Len(b) THEN b[i] ELSE 0
       IN IF x # y THEN x < y ELSE LtFrom(a, b, i - 1)

Lt(a, b) == LtFrom(a, b, IF Len(a) > Len(b) THEN Len(a) ELSE Len(b))
Ge(a, b) == ~Lt(a, b)
Eq(a, b) == ~Lt(a, b) /\ ~Lt(b, a)

\* a + b + c with the carry out appended: Len = max(Len(a), Len(b)) + 1.
RECURSIVE AddFrom(_, _, _, _)
AddFrom(a, b, i, c) ==
  IF i > Len(a) /\ i > Len(b) THEN <<c>>
  ELSE LET s == (IF i <= Len(a) THEN a[i] ELSE 0)
              + (IF i <= Len(b) THEN b[i] ELSE 0) + c
       IN <<s % 256>> \o AddFrom(a, b, i + 1, s \div 256)

AddWide(a, b) == AddFrom(a, b, 1, 0)

\* a - b for a >= b, in Len(a) bytes.
RECURSIVE SubFrom(_, _, _, _)
SubFrom(a, b, i, borrow) ==
  IF i > Len(a) THEN <<>>
  ELSE LET s == a[i] - (IF i <= Len(b) THEN b[i] ELSE 0) - borrow
       IN <<(s + 256) % 256>> \o SubFrom(a, b, i + 1, IF s < 0 THEN 1 ELSE 0)

Sub(a, b) == SubFrom(a, b, 1, 0)

\* a * m + c for a small multiplier m <= 10000, carry out appended (possibly
\* several bytes): the exact product.
RECURSIVE MulFrom(_, _, _, _)
MulFrom(a, m, i, c) ==
  IF i > Len(a) THEN (IF c = 0 THEN <<>> ELSE <<c % 256>> \o MulFrom(a, m, i, c \div 256))
  ELSE LET s == a[i] * m + c
       IN <<s % 256>> \o MulFrom(a, m, i + 1, s \div 256)

MulSmall(a, m, c) == MulFrom(a, m, 1, c)

\* The sum of a[i] * b[k + 1 - i] over the i from lo to hi: column k of the
\* schoolbook product.
RECURSIVE Column(_, _, _, _, _)
Column(a, b, k, i, hi) ==
  IF i > hi THEN 0 ELSE a[i] * b[k + 1 - i] + Column(a, b, k, i + 1, hi)

\* The columns cols[k..], with carry c, as bytes.
RECURSIVE Carry(_, _, _)
Carry(cols, k, c) ==
  IF k > Len(cols) THEN <<>>
  ELSE <<(cols[k] + c) % 256>> \o Carry(cols, k + 1, (cols[k] + c) \div 256)

\* a * b, exact, in Len(a) + Len(b) bytes.
Mul(a, b) ==
  Carry([k \in 1..(Len(a) + Len(b)) |->
           Column(a, b, k, IF k > Len(b) THEN k + 1 - Len(b) ELSE 1,
                           IF k > Len(a) THEN Len(a) ELSE k)], 1, 0)

\* a / d and a % d for a small divisor d <= 10000, by long division from the
\* most significant byte; the quotient keeps a's width.
RECURSIVE DivFrom(_, _, _, _, _)
DivFrom(a, d, i, r, q) ==
  IF i = 0 THEN [quot |-> q, rem |-> r]
  ELSE DivFrom(a, d, i - 1, (r * 256 + a[i]) % d, <<(r * 256 + a[i]) \div d>> \o q)

DivSmall(a, d) == DivFrom(a, d, Len(a), 0, <<>>).quot
ModSmall(a, d) == DivFrom(a, d, Len(a), 0, <<>>).rem

\* 10^e, exact.
RECURSIVE Pow10(_)
Pow10(e) ==
  IF e = 0 THEN <<1>>
  ELSE IF e >= 4 THEN MulSmall(Pow10(e - 4), 10000, 0)
  ELSE MulSmall(Pow10(e - 1), 10, 0)

\* 2^(8k): a one above k zero bytes.
Pow256(k) == Zero(k) \o <<1>>

(***************************************************************************)
(* Bit-level operations of the Rust integer types.                         *)
(***************************************************************************)
\* !a
Not(a) == [i \in 1..Len(a) |-> 255 - a[i]]

\* a.wrapping_add(b): the sum modulo 2^(8 * Len(a)).
WrappingAdd(a, b) == SubSeq(AddWide(a, b), 1, Len(a))

\* a - b modulo 2^(8 * Len(a)): unsigned subtraction as the hardware does it.
WrappingSub(a, b) == WrappingAdd(WrappingAdd(a, Not(Resize(b, Len(a)))), <<1>>)

\* `v as U` for a U of k bytes: a signed negative v is sign-extended, anything
\* else zero-extended; a narrower U truncates.
Cast(v, signed, k) ==
  [i \in 1..k |-> IF i <= Len(v) THEN v[i]
                  ELSE IF signed /\ v[Len(v)] >= 128 THEN 255 ELSE 0]

(***************************************************************************)
(* The supported integer types and the macro arguments of each             *)
(* instantiation.                                                          *)
(***************************************************************************)
Types ==
  {"i8", "u8", "i16", "u16", "i32", "u32", "i64", "u64", "isize", "usize", "i128", "u128"}

Types128 == {"i128", "u128"}

Signed(ty) == ty \in {"i8", "i16", "i32", "i64", "isize", "i128"}

\* #[cfg(target_pointer_width = ...)]: the targets the crate builds for.
PointerWidths == {16, 32, 64}

\* mem::size_of::<$t>(), in bytes.
size_of(ty, ptr) ==
  CASE ty \in {"i8", "u8"} -> 1
    [] ty \in {"i16", "u16"} -> 2
    [] ty \in {"i32", "u32"} -> 4
    [] ty \in {"i64", "u64"} -> 8
    [] ty \in {"isize", "usize"} -> ptr \div 8
    [] ty \in {"i128", "u128"} -> 16

I8_MAX_LEN == 4
U8_MAX_LEN == 3
I16_MAX_LEN == 6
U16_MAX_LEN == 5
I32_MAX_LEN == 11
U32_MAX_LEN == 10
I64_MAX_LEN == 20
U64_MAX_LEN == 20
U128_MAX_LEN == 39
I128_MAX_LEN == 40

\* Variant of max_len: the lengths without the byte for the sign.
max_len_nosign(ty, ptr) ==
  CASE ty \in {"i8", "u8"} -> U8_MAX_LEN
    [] ty \in {"i16", "u16"} -> U16_MAX_LEN
    [] ty \in {"i32", "u32"} -> U32_MAX_LEN
    [] ty \in {"i64", "u64"} -> U64_MAX_LEN
    [] ty \in {"isize", "usize"} -> (CASE ptr = 16 -> U16_MAX_LEN [] ptr = 32 -> U32_MAX_LEN [] ptr = 64 -> U64_MAX_LEN)
    [] ty = "i128" -> U128_MAX_LEN
    [] ty = "u128" -> U128_MAX_LEN

\* $max_len of the instantiation for $t.
max_len(ty, ptr) ==
  CASE ty = "i8" -> I8_MAX_LEN
    [] ty = "u8" -> U8_MAX_LEN
    [] ty = "i16" -> I16_MAX_LEN
    [] ty = "u16" -> U16_MAX_LEN
    [] ty = "i32" -> I32_MAX_LEN
    [] ty = "u32" -> U32_MAX_LEN
    [] ty = "i64" -> I64_MAX_LEN
    [] ty = "u64" -> U64_MAX_LEN
    [] ty = "isize" -> (CASE ptr = 16 -> I16_MAX_LEN [] ptr = 32 -> I32_MAX_LEN [] ptr = 64 -> I64_MAX_LEN)
    [] ty = "usize" -> (CASE ptr = 16 -> U16_MAX_LEN [] ptr = 32 -> U32_MAX_LEN [] ptr = 64 -> U64_MAX_LEN)
    [] ty = "i128" -> I128_MAX_LEN
    [] ty = "u128" -> U128_MAX_LEN

\* size of $conv_fn, in bytes: u32 for the 8/16/32-bit types, u64 for the
\* 64-bit ones, the pointer-wide unsigned type for isize/usize.
conv_size(ty, ptr) ==
  CASE ty \in {"i8", "u8", "i16", "u16", "i32", "u32"} -> 4
    [] ty \in {"i64", "u64"} -> 8
    [] ty \in {"isize", "usize"} -> ptr \div 8

\* The ASCII codes of a sequence of decimal digits.
Ascii(digits) == [i \in 1..Len(digits) |-> 48 + digits[i]]

\* DEC_DIGITS_LUT[d + 1] is the byte at lut_ptr.offset(d).
DEC_DIGITS_LUT ==
  Ascii(
    <<0,0,0,1,0,2,0,3,0,4,0,5,0,6,0,7,0,8,0,9,1,0,1,1,1,2,1,3,1,4,1,5,1,6,1,7,1,8,1,9>> \o
    <<2,0,2,1,2,2,2,3,2,4,2,5,2,6,2,7,2,8,2,9,3,0,3,1,3,2,3,3,3,4,3,5,3,6,3,7,3,8,3,9>> \o
    <<4,0,4,1,4,2,4,3,4,4,4,5,4,6,4,7,4,8,4,9,5,0,5,1,5,2,5,3,5,4,5,5,5,6,5,7,5,8,5,9>> \o
    <<6,0,6,1,6,2,6,3,6,4,6,5,6,6,6,7,6,8,6,9,7,0,7,1,7,2,7,3,7,4,7,5,7,6,7,7,7,8,7,9>> \o
    <<8,0,8,1,8,2,8,3,8,4,8,5,8,6,8,7,8,8,8,9,9,0,9,1,9,2,9,3,9,4,9,5,9,6,9,7,9,8,9,9>>)

\* The byte read at lut_ptr.offset(d): a read outside the table's 200 bytes is
\* undefined behaviour and may yield any byte.
LutAt(d) == IF d \in 0..(Len(DEC_DIGITS_LUT) - 1) THEN {DEC_DIGITS_LUT[d + 1]} ELSE Byte

\* MaybeUninit::<u8>::uninit(): a byte of the Buffer that was never written.
Uninit == -1

\* *ptr.offset(i) = b on Buffer.bytes.  (An index outside the Buffer would
\* write foreign memory; the Buffer itself is then unchanged.)
Store(mem, i, b) == IF i \in DOMAIN mem THEN [mem EXCEPT ![i] = b] ELSE mem

\* The same store recorded in the map of the bytes the current call has
\* written so far (index |-> byte).
Record(f, i, b) == [j \in (DOMAIN f) \cup {i} |-> IF j = i THEN b ELSE f[j]]

\* Variant of IsNonnegative: self > 0.
IsPositive(ty, v) == ~IsZero(v) /\ (~Signed(ty) \/ v[Len(v)] < 128)

\* self >= 0
IsNonnegative(ty, v) == ~Signed(ty) \/ v[Len(v)] < 128

\* Variant of Magnitude: !(self as U), without the wrapping_add(1).
MagnitudeOnesComplement(ty, v, k) ==
  IF IsNonnegative(ty, v)
    THEN Cast(v, Signed(ty), k)
    ELSE Not(Cast(v, Signed(ty), k))

\* Variant of Magnitude: the negation made in $t, before the cast to U.
MagnitudeNegatedInType(ty, v, k) ==
  IF IsNonnegative(ty, v)
    THEN Cast(v, Signed(ty), k)
    ELSE Cast(WrappingAdd(Not(v), <<1>>), Signed(ty), k)

\* lines 152-157 and 250-255: the magnitude in the k-byte conversion type.
Magnitude(ty, v, k) ==
  IF IsNonnegative(ty, v)
    THEN Cast(v, Signed(ty), k)
    ELSE WrappingAdd(Not(Cast(v, Signed(ty), k)), <<1>>)

\* `x as isize` of an unsigned x on a target with ptr-bit pointers: the low
\* bytes, read as a two's-complement number.  The values the writer casts
\* are below 10000 and so take at most two bytes.
AsIsize(x, ptr) ==
  LET lo == Resize(x, ptr \div 8)
  IN IF lo[Len(lo)] >= 128 THEN -(ToNat(WrappingAdd(Not(lo), <<1>>))) ELSE ToNat(lo)

(***************************************************************************)
(* udiv128::udivmod_1e19.  The module udiv128 is declared at lib.rs:46 and *)
(* called at lib.rs:261 and lib.rs:272; its body is described by section   *)
(* 4.2 of the specification: the quotient is estimated by multiplying with *)
(* a precomputed fixed-point approximation of 1/10^19, and the rounding    *)
(* error of the estimate is corrected by conditional fix-up steps.         *)
(***************************************************************************)
\* 10^19 as a u64.
D1E19 == Resize(Pow10(19), 8)

\* floor(2^128 / 10^19) = 34028236692093846346: the reciprocal of 10^19 in
\* fixed point with 128 fractional bits.
RECIP_1E19 == <<74, 195, 42, 109, 251, 148, 60, 216, 1>>

\* The upper 128 bits of the product of two u128.
u128_mulhi(x, y) == Resize(SubSeq(Mul(x, y), 17, Len(x) + Len(y)), 16)

\* Variant of FixUp: the estimate taken as it is.
FixUpNone(quot, r) == [quot |-> quot, rem |-> Resize(r, 8)]

\* The fix-up: while the remainder is not below 10^19, move 10^19 of it into
\* the quotient.
RECURSIVE FixUp(_, _)
FixUp(quot, r) ==
  IF Ge(r, D1E19) THEN FixUp(WrappingAdd(quot, <<1>>), WrappingSub(r, D1E19))
  ELSE [quot |-> quot, rem |-> Resize(r, 8)]

\* udivmod_1e19(n: u128) -> (u128, u64)
udivmod_1e19(x) ==
  LET est == u128_mulhi(x, RECIP_1E19)
      \* est < 2^65: it takes 9 bytes
      r == WrappingSub(x, Resize(Mul(Resize(est, 9), D1E19), 16))
  IN FixUp(est, r)

(***************************************************************************)
(* The values the caller formats.                                          *)
(***************************************************************************)
\* The k-byte value of the number a.
U(a, k) == Resize(a, k)

\* The k-byte two's-complement encoding of -a, for 0 < a <= 2^(8k-1).
Neg(a, k) == Resize(Sub(Pow256(k), a), k)

\* $t::MAX and $t::MIN of a k-byte type.
UMax(k) == [i \in 1..k |-> 255]
SMax(k) == [i \in 1..k |-> IF i = k THEN 127 ELSE 255]
SMin(k) == [i \in 1..k |-> IF i = k THEN 128 ELSE 0]

Pow10m1(e) == Sub(Pow10(e), <<1>>)

\* The sum of two numbers, the carry dropped when there is none.
Plus(a, b) == LET sum == AddWide(a, b) IN IF sum[Len(sum)] = 0 THEN SubSeq(sum, 1, Len(sum) - 1) ELSE sum

\* For each type: 0, -1, MIN and MAX, and values on both sides of the
\* thresholds the writer branches on (10, 100, 10000, 10^19, 10^38) and of
\* other powers of ten within the type's range.
Values(ty, ptr) ==
  LET k == size_of(ty, ptr)
  IN CASE ty = "u8" -> {U(<<0>>, k), U(<<9>>, k), U(<<10>>, k), U(<<99>>, k), U(<<100>>, k), UMax(k)}
       [] ty = "i8" -> {U(<<0>>, k), Neg(<<1>>, k), Neg(<<9>>, k), Neg(<<10>>, k), Neg(<<99>>, k),
                        Neg(<<100>>, k), SMin(k), SMax(k)}
       [] ty = "u16" -> {U(<<0>>, k), U(<<100>>, k), U(Pow10m1(4), k), U(Pow10(4), k), UMax(k)}
       [] ty = "i16" -> {U(<<0>>, k), Neg(<<1>>, k), Neg(Pow10m1(4), k), Neg(Pow10(4), k),
                         SMin(k), SMax(k)}
       [] ty = "u32" -> {U(<<0>>, k), U(Pow10(4), k), U(Pow10m1(8), k), U(Pow10(8), k),
                         U(Pow10(9), k), UMax(k)}
       [] ty = "i32" -> {U(<<0>>, k), Neg(<<1>>, k), Neg(Pow10m1(4), k), Neg(Pow10(8), k),
                         SMin(k), SMax(k)}
       [] ty = "u64" -> {U(<<0>>, k), U(Pow10(4), k), U(Pow10m1(12), k), U(Pow10(12), k),
                         U(Pow10(16), k), U(Pow10m1(19), k), U(Pow10(19), k), UMax(k)}
       [] ty = "i64" -> {U(<<0>>, k), Neg(<<1>>, k), Neg(Pow10(12), k), Neg(Pow10m1(16), k),
                         SMin(k), SMax(k)}
       [] ty = "usize" -> {U(<<0>>, k), U(Pow10m1(4), k), U(Pow10(4), k), UMax(k)}
       [] ty = "isize" -> {U(<<0>>, k), Neg(<<1>>, k), Neg(Pow10(4), k), SMin(k), SMax(k)}
       [] ty = "u128" -> {U(<<0>>, k), U(<<9>>, k), U(<<10>>, k), U(<<99>>, k), U(<<100>>, k),
                          U(Pow10m1(4), k), U(Pow10(4), k),
                          U(Pow10m1(19), k), U(Pow10(19), k), U(Plus(Pow10(19), <<7>>), k),
                          U(Plus(Pow10(20), Pow10(4)), k), U(Pow10(37), k),
                          U(Pow10m1(38), k), U(Pow10(38), k), U(Plus(Pow10(38), Pow10(19)), k),
                          UMax(k)}
       [] ty = "i128" -> {U(<<0>>, k), Neg(<<1>>, k), Neg(Pow10m1(19), k), Neg(Pow10(19), k),
                          Neg(Pow10m1(38), k), Neg(Pow10(38), k), SMin(k), SMax(k)}

\* The values after which the caller formats again with the same Buffer:
\* between them they leave every byte of the Buffer written, or only a few.
Earlier(ty, ptr) ==
  LET k == size_of(ty, ptr)
  IN CASE ty = "i128" -> {SMin(k)}
       [] ty = "u128" -> {UMax(k), U(<<0>>, k)}
       [] ty = "u64" -> {UMax(k)}
       [] ty = "i32" -> {SMin(k)}
       [] ty = "u8" -> {U(<<100>>, k)}
       [] OTHER -> {}

\* The number of format calls on one Buffer.
MaxCalls == 2

(***************************************************************************)
(* The state.                                                              *)
(***************************************************************************)
VARIABLES
  target_pointer_width, \* the build's #[cfg(target_pointer_width)]
  bytes,                \* Buffer.bytes: index 0..39 |-> byte or Uninit
  calls,                \* format calls made on the Buffer so far
  pc,                   \* where the current format call stands ("idle": none)
  t,                    \* format::<I>: the type I of the current/last call
  self,                 \* its argument i
  view,                 \* the &str it returned: [start, len] within bytes
  \* impl_Integer::write_to, called by write (types up to 64 bits) or by the
  \* 128-bit writer for one chunk (a u64)
  caller,               \* "write", "chunk1" or "chunk2"
  wt,                   \* $t of this instantiation
  off,                  \* index in Buffer.bytes of this call's buf[0]
  is_nonnegative,
  n,                    \* n: $conv_fn (lines 152-168)
  n_isize,              \* n: isize (lines 179-197)
  curr,
  \* impl_Integer128::write_to
  is_nonnegative128,    \* its is_nonnegative
  n128,                 \* its n: u128 (the magnitude, then each quotient)
  rem,                  \* its rem: u64
  curr128,              \* its curr
  \* what the current call has done so far
  fresh,                \* index |-> byte of every store it made
  lut_reads,            \* the offsets it read DEC_DIGITS_LUT at
  windows,              \* the [lo, hi) sub-buffers it handed to the u64 writer
  dividends             \* the arguments it called udivmod_1e19 with, in order

bufvars == <<target_pointer_width, bytes, calls>>
callvars == <<t, self, view>>
wvars == <<caller, wt, off, is_nonnegative, n, n_isize, curr>>
wvars128 == <<is_nonnegative128, n128, rem, curr128>>
histvars == <<fresh, lut_reads, windows, dividends>>
vars == <<bufvars, pc, callvars, wvars, wvars128, histvars>>

NoView == [start |-> 0, len |-> 0]
BufferIndex == 0..(I128_MAX_LEN - 1)

\* Buffer::new(), lines 83-86, on any of the supported targets.
Init ==
  /\ target_pointer_width \in PointerWidths
  /\ bytes = [i \in BufferIndex |-> Uninit]
  /\ calls = 0
  /\ pc = "idle"
  /\ t = "u8" /\ self = <<0>> /\ view = NoView
  /\ caller = "write" /\ wt = "u8" /\ off = 0
  /\ is_nonnegative = TRUE /\ n = <<0>> /\ n_isize = 0 /\ curr = 0
  /\ is_nonnegative128 = TRUE /\ n128 = <<0>> /\ rem = <<0>> /\ curr128 = 0
  /\ fresh = <<>> /\ lut_reads = {} /\ windows = {} /\ dividends = <<>>

\* The caller may format with the Buffer: no call is under way (format takes
\* &mut self), and the Buffer is new or its last value was one of Earlier.
CanFormat ==
  /\ pc = "idle"
  /\ calls < MaxCalls
  /\ calls = 0 \/ self \in Earlier(t, target_pointer_width)

\* buf.len() of the current impl_Integer::write_to call.
BufLen == max_len(wt, target_pointer_width)

\* buf.len() of the current impl_Integer128::write_to call.
BufLen128 == max_len(t, target_pointer_width)

\* Variant of LoopCond: while n >= 1000.
LoopCond1000 == size_of(wt, target_pointer_width) >= 2 /\ Ge(n, FromNat(1000, 2))

\* while n >= 10000, under `if mem::size_of::<$t>() >= 2` (lines 164-166)
LoopCond == size_of(wt, target_pointer_width) >= 2 /\ Ge(n, FromNat(10000, 2))

\* The two bytes at lut_ptr.offset(d) and lut_ptr.offset(d + 1).
LutPair(d) == LutAt(d) \X LutAt(d + 1)

\* ptr::copy_nonoverlapping(lut_ptr.offset(d), buf_ptr.offset(i), 2) as the
\* stores it makes, p the two bytes read.
Copy2(i, p) == <<(<<i, p[1]>>), (<<i + 1, p[2]>>)>>

\* Variant of Memset: nothing is filled.
MemsetNone(target, count) == <<>>

\* ptr::write_bytes(buf_ptr.offset(target), b'0', count)
Memset(target, count) == [j \in 1..count |-> <<target + j - 1, 48>>]

RECURSIVE StoreAll(_, _)
StoreAll(mem, ws) ==
  IF ws = <<>> THEN mem ELSE StoreAll(Store(mem, ws[1][1], ws[1][2]), Tail(ws))

RECURSIVE RecordAll(_, _)
RecordAll(f, ws) ==
  IF ws = <<>> THEN f ELSE RecordAll(Record(f, ws[1][1], ws[1][2]), Tail(ws))

\* The stores ws, made in order on Buffer.bytes.
Stores(ws) ==
  /\ bytes' = StoreAll(bytes, ws)
  /\ fresh' = RecordAll(fresh, ws)

(***************************************************************************)
(* Buffer::format for the types of impl_Integer (8 to 64 bits, isize and   *)
(* usize): write (lines 126-133) and the head of write_to (lines 150-160). *)
(***************************************************************************)
Format ==
  /\ CanFormat
  /\ \E ty \in Types \ Types128 :
       \E v \in Values(ty, target_pointer_width) :
         /\ t' = ty
         /\ self' = v
         /\ wt' = ty
         /\ is_nonnegative' = IsNonnegative(ty, v)
         /\ n' = Magnitude(ty, v, conv_size(ty, target_pointer_width))
         /\ curr' = max_len(ty, target_pointer_width)
  /\ caller' = "write"
  /\ off' = 0
  /\ calls' = calls + 1
  /\ view' = NoView
  /\ fresh' = <<>> /\ lut_reads' = {} /\ windows' = {} /\ dividends' = <<>>
  /\ pc' = "loop"
  /\ UNCHANGED <<target_pointer_width, bytes, n_isize, wvars128>>

\* lines 166-175: one iteration of the loop that decodes 4 characters.
Decode4 ==
  /\ pc = "loop"
  /\ LoopCond
  /\ LET rem4 == AsIsize(FromNat(ModSmall(n, 10000), Len(n)), target_pointer_width)
         d1 == (rem4 \div 100) * 2
         d2 == (rem4 % 100) * 2
     IN /\ n' = DivSmall(n, 10000)
        /\ curr' = curr - 4
        /\ lut_reads' = lut_reads \cup {d1, d2}
        /\ \E p1 \in LutPair(d1), p2 \in LutPair(d2) :
             Stores(Copy2(off + curr - 4, p1) \o Copy2(off + curr - 4 + 2, p2))
  /\ UNCHANGED <<target_pointer_width, calls, pc, callvars, caller, wt, off, is_nonnegative,
                 n_isize, wvars128, windows, dividends>>

\* lines 179-187: the loop is left; n as isize, and 2 more characters if n
\* has more than 2.
Decode2 ==
  /\ pc = "loop"
  /\ ~LoopCond
  /\ LET ni == AsIsize(n, target_pointer_width)
     IN IF ni >= 100
          THEN LET d1 == (ni % 100) * 2
               IN /\ n_isize' = ni \div 100
                  /\ curr' = curr - 2
                  /\ lut_reads' = lut_reads \cup {d1}
                  /\ \E p1 \in LutPair(d1) : Stores(Copy2(off + curr - 2, p1))
          ELSE /\ n_isize' = ni
               /\ UNCHANGED <<curr, lut_reads, bytes, fresh>>
  /\ pc' = "last"
  /\ UNCHANGED <<target_pointer_width, calls, callvars, caller, wt, off, is_nonnegative, n,
                 wvars128, windows, dividends>>

\* lines 189-197: the last 1 or 2 characters.
DecodeLast ==
  /\ pc = "last"
  /\ IF n_isize < 10
       THEN /\ curr' = curr - 1
            /\ Stores(<<(<<off + curr - 1, ((n_isize % 256) + 48) % 256>>)>>)
            /\ UNCHANGED lut_reads
       ELSE LET d1 == n_isize * 2
            IN /\ curr' = curr - 2
               /\ lut_reads' = lut_reads \cup {d1}
               /\ \E p1 \in LutPair(d1) : Stores(Copy2(off + curr - 2, p1))
  /\ pc' = "sign"
  /\ UNCHANGED <<target_pointer_width, calls, callvars, caller, wt, off, is_nonnegative, n,
                 n_isize, wvars128, windows, dividends>>

\* lines 199-202: the sign.
WriteSign ==
  /\ pc = "sign"
  /\ IF ~is_nonnegative
       THEN /\ curr' = curr - 1
            /\ Stores(<<(<<off + curr - 1, 45>>)>>)
       ELSE UNCHANGED <<curr, bytes, fresh>>
  /\ pc' = "ret"
  /\ UNCHANGED <<target_pointer_width, calls, callvars, caller, wt, off, is_nonnegative, n,
                 n_isize, wvars128, lut_reads, windows, dividends>>

\* lines 205-206 and 133-134: write_to returns buf[curr..], and write returns
\* it as a &str.
Return ==
  /\ pc = "ret"
  /\ caller = "write"
  /\ view' = [start |-> off + curr, len |-> BufLen - curr]
  /\ pc' = "idle"
  /\ UNCHANGED <<bufvars, t, self, wvars, wvars128, histvars>>

(***************************************************************************)
(* Buffer::format for i128 and u128: write (lines 126-133) and             *)
(* impl_Integer128::write_to (lines 248-297).                              *)
(***************************************************************************)
Format128 ==
  /\ CanFormat
  /\ \E ty \in Types128 :
       \E v \in Values(ty, target_pointer_width) :
         /\ t' = ty
         /\ self' = v
         /\ is_nonnegative128' = IsNonnegative(ty, v)
         /\ n128' = Magnitude(ty, v, 16)
         /\ curr128' = max_len(ty, target_pointer_width)
  /\ calls' = calls + 1
  /\ view' = NoView
  /\ fresh' = <<>> /\ lut_reads' = {} /\ windows' = {} /\ dividends' = <<>>
  /\ pc' = "div1"
  /\ UNCHANGED <<target_pointer_width, bytes, wvars, rem>>

\* lines 261-263 and 272-274: divide by 10^19 and hand the remainder, with
\* the 20 bytes below curr as its buffer, to the u64 writer (whose lines
\* 150-160 are its head).
DivideChunk(chunk) ==
  LET qr == udivmod_1e19(n128)
  IN /\ dividends' = Append(dividends, n128)
     /\ n128' = qr.quot
     /\ rem' = qr.rem
     /\ off' = curr128 - U64_MAX_LEN
     /\ windows' = windows \cup {<<curr128 - U64_MAX_LEN, curr128>>}
     /\ caller' = chunk
     /\ wt' = "u64"
     /\ is_nonnegative' = IsNonnegative("u64", qr.rem)
     /\ n' = Magnitude("u64", qr.rem, conv_size("u64", target_pointer_width))
     /\ curr' = U64_MAX_LEN
     /\ pc' = "loop"
     /\ UNCHANGED <<bufvars, callvars, n_isize, is_nonnegative128, curr128, fresh, lut_reads>>

Divide1 == pc = "div1" /\ DivideChunk("chunk1")

Divide2 == pc = "div2" /\ DivideChunk("chunk2")

\* lines 263 and 274: curr -= rem.write_to(..).len()
ChunkReturn ==
  /\ pc = "ret"
  /\ caller \in {"chunk1", "chunk2"}
  /\ curr128' = curr128 - (BufLen - curr)
  /\ pc' = IF caller = "chunk1" THEN "pad1" ELSE "pad2"
  /\ UNCHANGED <<bufvars, callvars, wvars, is_nonnegative128, n128, rem, histvars>>

\* Variants of Target1: chunks of 18 and of 20 digits.
Target1Short == BufLen128 - 18

Target1Wide == BufLen128 - 20

\* line 267: the start of the last 19-digit chunk.
Target1 == BufLen128 - 19

\* line 278: the start of the second 19-digit chunk.
Target2 == BufLen128 - 38

\* lines 265-269: if a quotient is left, fill the chunk up to 19 digits.
Pad1 ==
  /\ pc = "pad1"
  /\ IF ~IsZero(n128)
       THEN /\ Stores(Memset(Target1, curr128 - Target1))
            /\ curr128' = Target1
            /\ pc' = "div2"
       ELSE /\ UNCHANGED <<bytes, fresh, curr128>>
            /\ pc' = "sign128"
  /\ UNCHANGED <<target_pointer_width, calls, callvars, wvars, is_nonnegative128, n128, rem,
                 lut_reads, windows, dividends>>

\* Variant of Pad2: a quotient left after the second division is divided
\* again instead of being written as one digit.
Pad2Again ==
  /\ pc = "pad2"
  /\ IF ~IsZero(n128)
       THEN /\ Stores(Memset(Target2, curr128 - Target2))
            /\ curr128' = Target2
            /\ pc' = "div2"
       ELSE /\ UNCHANGED <<bytes, fresh, curr128>>
            /\ pc' = "sign128"
  /\ UNCHANGED <<target_pointer_width, calls, callvars, wvars, is_nonnegative128, n128, rem,
                 lut_reads, windows, dividends>>

\* lines 276-286: if a quotient is left again, fill the second chunk and
\* write the quotient as one digit.
Pad2 ==
  /\ pc = "pad2"
  /\ IF ~IsZero(n128)
       THEN /\ Stores(Memset(Target2, curr128 - Target2)
                      \o <<(<<Target2 - 1, (n128[1] + 48) % 256>>)>>)
            /\ curr128' = Target2 - 1
       ELSE UNCHANGED <<bytes, fresh, curr128>>
  /\ pc' = "sign128"
  /\ UNCHANGED <<target_pointer_width, calls, callvars, wvars, is_nonnegative128, n128, rem,
                 lut_reads, windows, dividends>>

\* lines 289-292: the sign.
WriteSign128 ==
  /\ pc = "sign128"
  /\ IF ~is_nonnegative128
       THEN /\ curr128' = curr128 - 1
            /\ Stores(<<(<<curr128 - 1, 45>>)>>)
       ELSE UNCHANGED <<curr128, bytes, fresh>>
  /\ pc' = "ret128"
  /\ UNCHANGED <<target_pointer_width, calls, callvars, wvars, is_nonnegative128, n128, rem,
                 lut_reads, windows, dividends>>

\* lines 294-295 and 133-134: write_to returns buf[curr..], and write returns
\* it as a &str.
Return128 ==
  /\ pc = "ret128"
  /\ view' = [start |-> curr128, len |-> BufLen128 - curr128]
  /\ pc' = "idle"
  /\ UNCHANGED <<bufvars, t, self, wvars, wvars128, histvars>>

Next ==
  \/ Format
  \/ Decode4
  \/ Decode2
  \/ DecodeLast
  \/ WriteSign
  \/ Return
  \/ Format128
  \/ Divide1
  \/ Divide2
  \/ ChunkReturn
  \/ Pad1
  \/ Pad2
  \/ WriteSign128
  \/ Return128

Spec == Init /\ [][Next]_vars

(***************************************************************************)
(* What the caller sees.                                                   *)
(***************************************************************************)
\* A format call has returned and its &str is alive.
Returned == pc = "idle" /\ calls > 0

\* The byte at index i of the Buffer as a reader finds it; outside the Buffer
\* there is nothing the call has initialized.
ByteAt(i) == IF i \in DOMAIN bytes THEN bytes[i] ELSE Uninit

\* The bytes of the returned &str.
Text == [i \in 1..view.len |-> ByteAt(view.start + i - 1)]

TypeOK ==
  /\ bytes \in [BufferIndex -> Byte \cup {Uninit}]
  /\ pc \in {"idle", "loop", "last", "sign", "ret", "div1", "div2", "pad1", "pad2",
             "sign128", "ret128"}
  /\ t \in Types
  /\ calls \in 0..MaxCalls

(***************************************************************************)
(* The properties.  What a text means is stated apart from the writer:     *)
(* the sign of a value is its top bit, its absolute value the distance to  *)
(* 2^(8k), and standard decimal parsing is str::parse of the value's type. *)
(***************************************************************************)
\* v < 0, for a value v of type ty.
Negative(ty, v) == Signed(ty) /\ v[Len(v)] >= 128

\* |v| as a number.
Abs(ty, v) == IF Negative(ty, v) THEN Sub(Pow256(Len(v)), v) ELSE v

IsDigit(b) == b \in 48..57

\* The number a sequence of ASCII digits reads as, from digit i on.
RECURSIVE DigitsValue(_, _, _)
DigitsValue(txt, i, acc) ==
  IF i > Len(txt) THEN acc ELSE DigitsValue(txt, i + 1, MulSmall(acc, 10, txt[i] - 48))

\* No value: str::parse returned Err.
ParseErr == <<>>

\* txt.parse::<ty>() for a k-byte type: an optional sign (a '-' only for a
\* signed type), then one or more digits, the number within the type's range.
Parse(txt, ty, k) ==
  LET signed == Len(txt) >= 1 /\ txt[1] \in {43, 45}
      digits == IF signed THEN Tail(txt) ELSE txt
      minus == Len(txt) >= 1 /\ txt[1] = 45
  IN IF digits = <<>> \/ (\E i \in 1..Len(digits) : ~IsDigit(digits[i])) \/ (minus /\ ~Signed(ty))
       THEN ParseErr
     ELSE LET m == DigitsValue(digits, 1, <<>>)
              limit == IF ~Signed(ty) THEN Pow256(k)
                       ELSE IF minus THEN Plus(Resize(SMin(k), k), <<1>>)
                       ELSE SMin(k)
          IN IF Ge(m, limit) THEN ParseErr
             ELSE IF minus /\ ~IsZero(m) THEN Neg(m, k)
             ELSE U(m, k)

\* The number of decimal digits of m: the least e >= 1 with m < 10^e = p.
RECURSIVE DecLenFrom(_, _, _)
DecLenFrom(m, e, p) == IF Lt(m, p) THEN e ELSE DecLenFrom(m, e + 1, MulSmall(p, 10, 0))

DecLen(m) == DecLenFrom(m, 1, <<10>>)

\* The decimal digits of MAX and of |MIN| of the k-byte types.
UMaxDigits(k) ==
  CASE k = 1 -> <<2, 5, 5>>
    [] k = 2 -> <<6, 5, 5, 3, 5>>
    [] k = 4 -> <<4, 2, 9, 4, 9, 6, 7, 2, 9, 5>>
    [] k = 8 -> <<1, 8, 4, 4, 6, 7, 4, 4, 0, 7, 3, 7, 0, 9, 5, 5, 1, 6, 1, 5>>
    [] k = 16 -> <<3, 4, 0, 2, 8, 2, 3, 6, 6, 9, 2, 0, 9, 3, 8, 4, 6, 3, 4, 6, 3, 3, 7, 4, 6, 0, 7, 4, 3, 1, 7, 6, 8, 2, 1, 1, 4, 5, 5>>

SMaxDigits(k) ==
  CASE k = 1 -> <<1, 2, 7>>
    [] k = 2 -> <<3, 2, 7, 6, 7>>
    [] k = 4 -> <<2, 1, 4, 7, 4, 8, 3, 6, 4, 7>>
    [] k = 8 -> <<9, 2, 2, 3, 3, 7, 2, 0, 3, 6, 8, 5, 4, 7, 7, 5, 8, 0, 7>>
    [] k = 16 -> <<1, 7, 0, 1, 4, 1, 1, 8, 3, 4, 6, 0, 4, 6, 9, 2, 3, 1, 7, 3, 1, 6, 8, 7, 3, 0, 3, 7, 1, 5, 8, 8, 4, 1, 0, 5, 7, 2, 7>>

SMinDigits(k) ==
  CASE k = 1 -> <<1, 2, 8>>
    [] k = 2 -> <<3, 2, 7, 6, 8>>
    [] k = 4 -> <<2, 1, 4, 7, 4, 8, 3, 6, 4, 8>>
    [] k = 8 -> <<9, 2, 2, 3, 3, 7, 2, 0, 3, 6, 8, 5, 4, 7, 7, 5, 8, 0, 8>>
    [] k = 16 -> <<1, 7, 0, 1, 4, 1, 1, 8, 3, 4, 6, 0, 4, 6, 9, 2, 3, 1, 7, 3, 1, 6, 8, 7, 3, 0, 3, 7, 1, 5, 8, 8, 4, 1, 0, 5, 7, 2, 8>>

\* The literals format(MIN) and format(MAX) of a type.
MaxText(ty, k) == IF Signed(ty) THEN Ascii(SMaxDigits(k)) ELSE Ascii(UMaxDigits(k))
MinText(ty, k) == IF Signed(ty) THEN <<45>> \o Ascii(SMinDigits(k)) ELSE Ascii(<<0>>)
MaxOf(ty, k) == IF Signed(ty) THEN SMax(k) ELSE UMax(k)
MinOf(ty, k) == IF Signed(ty) THEN SMin(k) ELSE Zero(k)

\* size_of of the current call's type.
Size == size_of(t, target_pointer_width)

\* The index range of the returned &str.
ViewRange == view.start..(view.start + view.len - 1)

\* impl_Integer::write_to is running (for write or for a chunk).
InWriteTo == pc \in {"loop", "last", "sign", "ret"}

\* impl_Integer128::write_to is running.
InWriteTo128 == pc \in {"div1", "div2", "pad1", "pad2", "sign128", "ret128"} \/ (InWriteTo /\ caller # "write")

\* write_to has computed the magnitude and written nothing yet.
AtMagnitude == pc = "loop" /\ caller = "write" /\ curr = BufLen

\* m, a value of the conversion type, is |v|: for v < 0 the two sum to 2^(8k)
\* exactly, for v >= 0 they are the same number.
IsMagnitude(ty, v, m) ==
  IF Negative(ty, v) THEN AddWide(m, v) = Resize(Pow256(Len(v)), Len(m) + 1)
  ELSE m = Resize(v, Len(m))

\* C1: round trip: the text format(v) returns parses, as a standard base-10
\* integer of v's type, to exactly v.
C1_RoundTrip == Returned => Parse(Text, t, Size) = self

C1_Witness == Returned /\ t = "i64" /\ self = Neg(Pow10m1(16), 8)

\* C2: for a negative v, MIN included, the magnitude computed by
\* (!(v as U)).wrapping_add(1) is |v| exactly (no overflow in U), and
\* format(MIN) and format(MAX) are the expected literals.
C2_Magnitude ==
  /\ AtMagnitude => IsMagnitude(t, self, n)
  /\ pc = "div1" => IsMagnitude(t, self, n128)
  /\ Returned /\ self = MinOf(t, Size) => Text = MinText(t, Size)
  /\ Returned /\ self = MaxOf(t, Size) => Text = MaxText(t, Size)

C2_Witness == Returned /\ t = "i128" /\ self = SMin(16) /\ Len(Text) = 40

\* C3: the text is at least 1 and at most $max_len bytes long, and no
\* $max_len exceeds the Buffer's 40 bytes.
C3_Length ==
  /\ Returned => view.len >= 1 /\ view.len <= max_len(t, target_pointer_width)
  /\ \A ty \in Types : max_len(ty, target_pointer_width) <= Cardinality(DOMAIN bytes)
  /\ Cardinality(DOMAIN bytes) = 40

C3_Witness == Returned /\ t = "i8" /\ self = SMin(1) /\ view.len = I8_MAX_LEN

\* C4: the text is not empty, each byte is an ASCII digit except a '-' that
\* can only be the first byte, and the '-' is there if and only if v < 0.
C4_Charset ==
  Returned =>
    /\ Len(Text) >= 1
    /\ \A i \in 1..Len(Text) : IsDigit(Text[i]) \/ (i = 1 /\ Text[i] = 45)
    /\ (Text[1] = 45) <=> Negative(t, self)

C4_Witness == Returned /\ t = "isize" /\ Negative(t, self) /\ Text[1] = 45

\* C5: on a Buffer used before, the returned view holds only bytes the
\* latest call stored: it is the view the call returns on a new Buffer, and
\* no earlier call's byte and no uninitialized byte shows in it.
C5_Reuse ==
  Returned =>
    \A i \in ViewRange : i \in DOMAIN fresh /\ ByteAt(i) = fresh[i] /\ ByteAt(i) # Uninit

\* A u128 needing the zero fill, over the bytes i128::MIN left behind.
C5_Witness ==
  /\ Returned /\ calls >= 2
  /\ t = "u128" /\ self = U(Plus(Pow10(19), <<7>>), 16)
  /\ ByteAt(0) = 45 /\ ByteAt(39) = 56

\* C6: canonical form: format(0) is "0"; for v # 0 the first digit is not
\* '0'; the number of digits is the decimal digit count of |v|.
C6_Canonical ==
  Returned =>
    /\ Len(Text) >= 1
    /\ LET digits == IF Text[1] = 45 THEN Tail(Text) ELSE Text
       IN /\ Len(digits) = DecLen(Abs(t, self))
          /\ IsZero(self) => Text = <<48>>
          /\ ~IsZero(self) => digits[1] # 48

C6_Witness == Returned /\ t = "u128" /\ self = U(Pow10(38), 16) /\ Len(Text) = 39

\* udivmod_1e19 has just returned to the 128-bit writer.
AtQuotient == pc = "loop" /\ caller # "write" /\ curr = BufLen

\* C7: udivmod_1e19(x) = (q, r) with x = q * 10^19 + r and r < 10^19.
C7_Division ==
  AtQuotient =>
    /\ Lt(rem, D1E19)
    /\ Eq(AddWide(Mul(n128, D1E19), rem), dividends[Len(dividends)])

\* A dividend whose estimated quotient is one too small.
C7_Witness == AtQuotient /\ dividends = <<U(Pow10(38), 16)>> /\ IsZero(rem)

\* The 19 bytes of the chunk starting at index i are digits stored by this
\* call that read as the number r.
IsChunk(i, r) ==
  /\ \A j \in i..(i + 18) : j \in DOMAIN fresh /\ IsDigit(ByteAt(j))
  /\ Eq(DigitsValue([j \in 1..19 |-> ByteAt(i + j - 1)], 1, <<>>), r)

\* C8: a chunk that is not the most significant one takes exactly 19
\* characters, zero-filled: after the fill the cursor is at the chunk's slot
\* (len - 19, then len - 38), whose 19 digits are the remainder; e.g. 10^19
\* is '1' and nineteen '0'.
C8_ZeroFill ==
  /\ pc = "div2" => curr128 = BufLen128 - 19 /\ IsChunk(BufLen128 - 19, rem)
  /\ pc = "sign128" /\ Len(dividends) = 2 /\ ~IsZero(n128) =>
       curr128 = BufLen128 - 39 /\ IsChunk(BufLen128 - 38, rem)
  /\ Returned /\ t = "u128" /\ self = U(Pow10(19), 16) =>
       Text = Ascii(<<1>> \o [i \in 1..19 |-> 0])

C8_Witness == pc = "div2" /\ rem = FromNat(7, 8) /\ curr128 = BufLen128 - 19

\* C9: a format call divides by 10^19 at most twice, and what is left after
\* the second division is at most 3, one decimal digit.
C9_TwoDivisions ==
  /\ Len(dividends) <= 2
  /\ Len(dividends) = 2 => Lt(n128, <<4>>)

C9_Witness == pc = "sign128" /\ Len(dividends) = 2 /\ n128 = FromNat(3, 16)

\* C10: the cursor stays within 0..L; every store is at an index of 0..L-1,
\* the first L bytes of the Buffer; every table read is at an even offset of
\* 0..198; each 20-byte window of the 128-bit writer lies within 0..L.
C10_Bounds ==
  /\ InWriteTo => curr \in 0..BufLen
  /\ InWriteTo128 => curr128 \in 0..BufLen128
  /\ DOMAIN fresh \subseteq 0..(max_len(t, target_pointer_width) - 1)
  /\ max_len(t, target_pointer_width) <= Cardinality(DOMAIN bytes)
  /\ \A d \in lut_reads : d % 2 = 0 /\ d >= 0 /\ d <= 198
  /\ \A w \in windows : w[1] >= 0 /\ w[2] = w[1] + 20 /\ w[2] <= BufLen128

C10_Witness == pc = "ret" /\ caller = "chunk2" /\ t = "u128" /\ off = 0 /\ curr = 1
=============================================================================
